---- MODULE Spec2Model ----
(***************************************************************************)
(* pod-watcher: a watcher that polls one pod until its critical containers *)
(* have terminated and then deletes the pod together with the chain of its *)
(* controller owners (src/main.rs, src/delete.rs), and the cleanup variant *)
(* that first asks the Istio sidecar to quit (src/cleanup/).               *)
(***************************************************************************)
EXTENDS Integers, Sequences, FiniteSets, TLC

(***************************************************************************)
(* Bounds of the model.                                                    *)
(***************************************************************************)
\* longest chain delete_pod may build before the model stops following it
\* (owner references that form a cycle make the loop of the code endless)
MaxChain == 5

\* owner references held, in total, by the objects delete_pod reads
MaxRefs == 4

\* the same, for the runs that start at watch_k8s or at cleanup_pod
MaxProgramRefs == 2

\* poll ticks after which the model stops the watch loop
MaxTicks == 2

\* longest list of critical containers given on the command line
MaxCritical == 2

(***************************************************************************)
(* Program constants.                                                      *)
(***************************************************************************)
\* delay_for(Duration::from_millis(100)) between two polls
PollIntervalMs == 100

\* the grace period CleanupPod::new is given (istio_deadline_ms)
IstioDeadlineMs == 5000

\* the critical-container deadline of the specification (no code reads one)
CriticalDeadlineMs == 1000

\* the container name CleanupPod::new is given (istio_container_name)
IstioContainerName == "istio-proxy"

(***************************************************************************)
(* The cluster: the pod and the objects owner references may name.         *)
(***************************************************************************)
PodName == "pod"

Owners == {"rs-1", "job-1", "dep-1", "cron-1"}

\* the kind under which each object of the cluster is stored
KindOf(n) ==
    CASE n = "rs-1" -> "ReplicaSet"
      [] n = "job-1" -> "Job"
      [] n = "dep-1" -> "Deployment"
      [] n = "cron-1" -> "CronJob"
      [] OTHER -> "Pod"

\* OwnerReference.controller is an Option<bool>
ControllerFlags == {"true", "false", "unset"}

Ref(n, c) == [kind |-> KindOf(n), name |-> n, controller |-> c]

OwnerReference == {Ref(n, c) : n \in Owners, c \in ControllerFlags}

\* no owner taken yet
NoOwner == [kind |-> "", name |-> "", controller |-> ""]

\* the objects of the cluster the program may hold: the pod and the owners
Objects == {PodName} \cup Owners

\* watcher_args.pod_namespace, the namespace main.rs resolves owners in
PodNamespace == "ns"

\* ObjectMeta.namespace and ObjectMeta.name are Option<String>: "None" or a value
ObjectMeta(n) ==
    {[namespace |-> ns, name |-> nm] : ns \in {"None", PodNamespace}, nm \in {"None", n}}

\* the metadata the API server gives an object of the watched namespace
FullMeta(n) == [namespace |-> PodNamespace, name |-> n]

\* every object with its full metadata
AllFullMeta == [n \in Objects |-> FullMeta(n)]

\* ObjectMeta.owner_references as the API returns it (None is the empty list)
RefLists ==
    {<<>>}
    \cup {<<a>> : a \in OwnerReference}
    \cup {<<a, b>> : a \in OwnerReference, b \in OwnerReference}

(***************************************************************************)
(* The pod as get_pod_status returns it.                                   *)
(***************************************************************************)
ContainerNames == {IstioContainerName, "worker"}

PodIps == {"None", "10.0.0.7"}

\* ContainerStatus: name, state (None, Some without terminated, Some with
\* terminated) and terminated.finished_at
ContainerStatus(times) ==
    [name : ContainerNames, state : {"None", "running"}, finished_at : {0}]
    \cup [name : ContainerNames, state : {"terminated"}, finished_at : times]

\* container names are unique within a pod
ContainerStatusLists(times) ==
    {<<>>}
    \cup {<<a>> : a \in ContainerStatus(times)}
    \cup {l \in {<<a, b>> : a \in ContainerStatus(times), b \in ContainerStatus(times)} :
              l[1].name # l[2].name}

\* pod.status is None
NoStatus ==
    [has_status |-> FALSE, has_container_statuses |-> FALSE,
     container_statuses |-> <<>>, pod_ip |-> "None"]

Pods(times) ==
    {NoStatus}
    \cup [has_status : {TRUE}, has_container_statuses : {FALSE},
          container_statuses : {<<>>}, pod_ip : PodIps]
    \cup [has_status : {TRUE}, has_container_statuses : {TRUE},
          container_statuses : ContainerStatusLists(times), pod_ip : PodIps]

\* WatcherArgs: kill_condition and critical_containers
KillCondition == {"Any", "All"}

CriticalLists == UNION {[1..k -> ContainerNames] : k \in 0..MaxCritical}

WatcherArgs == [kill_condition : KillCondition, critical_containers : CriticalLists]

NoArgs == [kill_condition |-> "Any", critical_containers |-> <<>>]

(***************************************************************************)
(* Helpers on sequences.                                                   *)
(***************************************************************************)
Reverse(s) == [i \in 1..Len(s) |-> s[Len(s) + 1 - i]]

Front(s) == SubSeq(s, 1, Len(s) - 1)

Last(s) == s[Len(s)]

Range(s) == {s[i] : i \in 1..Len(s)}

(***************************************************************************)
(* get_owners: the owner references whose controller flag is Some(true).   *)
(***************************************************************************)
\* every owner reference, whatever its controller flag
get_owners_all(refs) == refs

get_owners(refs) == SelectSeq(refs, LAMBDA r : r.controller = "true")

\* the new owners pushed at the end of the pending list, where pop() takes from
insert_all_push(owner_refs, supers) == owner_refs \o supers

\* for super_owner in get_owners(target.meta()) { owner_refs.insert(0, super_owner) }
RECURSIVE insert_all(_, _)
insert_all(owner_refs, supers) ==
    IF supers = <<>> THEN owner_refs
    ELSE insert_all(<<supers[1]>> \o owner_refs, Tail(supers))

\* a match arm for every kind
KnownKinds_any(v) == {KindOf(n) : n \in Owners}

\* the kinds each delete_pod has a match arm for
KnownKinds(v) ==
    IF v = "cleanup" THEN {"Job"} ELSE {"ReplicaSet", "Job", "Deployment"}

\* the chain left in construction order
unreversed(s) == s

\* delete_order.reverse()
reversed(s) == Reverse(s)

\* the error ends the walk and the chain resolved so far is deleted
ResolveFailure_break(step) == [pc |-> "delete", result |-> "none"]

\* `?` in the resolution loop: delete_pod returns the error
ResolveFailure(step) == [pc |-> "done", result |-> step]

\* the error sends the program back to the watch loop
DeleteFailure_retry(step) == [pc |-> "poll", result |-> "none", advance |-> 0]

\* the error is dropped and the deletion loop goes on
DeleteFailure_continue(step) == [pc |-> "delete", result |-> "none", advance |-> 1]

\* `?` in the deletion loop: delete_pod returns the error
DeleteFailure(step) == [pc |-> "done", result |-> step, advance |-> 0]

(***************************************************************************)
(* The namespace delete_pod resolves owners in, and the namespace and name *)
(* delete_resource deletes with.                                           *)
(***************************************************************************)
\* main.rs, delete.rs: the namespace parameter; cleanup/delete.rs:
\* match &meta.namespace { Some(ns) => ns.clone(), None => "default" }
resolve_namespace(v, m) ==
    IF v = "cleanup"
    THEN (IF m.namespace = "None" THEN "default" ELSE m.namespace)
    ELSE PodNamespace

\* missing metadata replaced by a default instead of a panic
unwrap_or_default(m) ==
    [panic |-> FALSE,
     namespace |-> IF m.namespace = "None" THEN "default" ELSE m.namespace,
     name |-> IF m.name = "None" THEN "" ELSE m.name]

\* metadata.namespace.unwrap(); metadata.name.unwrap()
unwrap_meta(m) ==
    [panic |-> m.namespace = "None" \/ m.name = "None",
     namespace |-> m.namespace,
     name |-> m.name]

(***************************************************************************)
(* The watch loop's handling of a failed get_pod_status, main's exit code, *)
(* delay_for and the URL stop_istio posts to.                              *)
(***************************************************************************)
\* the error of a tick's get_pod_status ends the program
PollFailure_fatal == [pc |-> "done", result |-> "pod", should_kill_pod |-> FALSE]

\* the error of a tick's get_pod_status counts as a dead pod
PollFailure_kill == [pc |-> "polled", result |-> "none", should_kill_pod |-> TRUE]

\* Err(e) => { warn!("Unable to get details about pod. Ignoring error."); false }
PollFailure == [pc |-> "polled", result |-> "none", should_kill_pod |-> FALSE]

\* main: Ok(_) => 0, Err(e) => 1
exit_code(r) == IF r = "Ok" THEN 0 ELSE 1

\* a delay that returns at once
delay_none(ms) == 0

\* delay_for(Duration::from_millis(ms)): the time that passes
delay_for(ms) == ms

\* the POST sent to the pod itself
quit_url_localhost(ip) == [host |-> "127.0.0.1", port |-> 15000, path |-> "/quitquitquit"]

\* format!("http://{}:15000/quitquitquit", ip_address)
quit_url(ip) == [host |-> ip, port |-> 15000, path |-> "/quitquitquit"]

(***************************************************************************)
(* are_critical_pods_dead                                                  *)
(***************************************************************************)
\* the loop, counting each critical container found, terminated or not
RECURSIVE scan_statuses_any_state(_, _, _)
scan_statuses_any_state(statuses, critical_containers, dead) ==
    IF statuses = <<>> THEN dead
    ELSE LET status == Head(statuses)
         IN IF status.name \in critical_containers
            THEN scan_statuses_any_state(Tail(statuses),
                                         critical_containers \ {status.name}, dead + 1)
            ELSE scan_statuses_any_state(Tail(statuses), critical_containers, dead)

\* the loop over container_statuses: critical_containers is the BTreeSet of
\* the names still looked for, dead is critical_containers_dead
RECURSIVE scan_statuses(_, _, _)
scan_statuses(statuses, critical_containers, dead) ==
    IF statuses = <<>> THEN dead
    ELSE LET status == Head(statuses)
         IN IF status.name \in critical_containers
            THEN scan_statuses(Tail(statuses), critical_containers \ {status.name},
                               IF status.state = "terminated" THEN dead + 1 ELSE dead)
            ELSE scan_statuses(Tail(statuses), critical_containers, dead)

\* match args.kill_condition
kill_decision(kill_condition, dead, declared) ==
    IF kill_condition = "Any" THEN dead # 0 ELSE dead = declared

\* the evaluator without its two early returns
are_critical_pods_dead_unguarded(p, a) ==
    kill_decision(a.kill_condition,
                  scan_statuses(p.container_statuses, Range(a.critical_containers), 0),
                  Len(a.critical_containers))

\* the evaluator with All compared against the critical containers it found
are_critical_pods_dead_observed(p, a) ==
    IF ~p.has_status THEN FALSE
    ELSE IF ~p.has_container_statuses THEN FALSE
    ELSE LET dead == scan_statuses(p.container_statuses, Range(a.critical_containers), 0)
             found == Cardinality({i \in 1..Len(p.container_statuses) :
                          p.container_statuses[i].name \in Range(a.critical_containers)})
         IN IF a.kill_condition = "Any" THEN dead # 0 ELSE dead = found

are_critical_pods_dead(p, a) ==
    IF ~p.has_status THEN FALSE
    ELSE IF ~p.has_container_statuses THEN FALSE
    ELSE kill_decision(a.kill_condition,
                       scan_statuses(p.container_statuses, Range(a.critical_containers), 0),
                       Len(a.critical_containers))

(***************************************************************************)
(* CleanupPod::get_istio_container_ip                                      *)
(***************************************************************************)
\* the pod's IP, whichever containers the pod has
get_istio_container_ip_any(p) == IF ~p.has_status THEN "None" ELSE p.pod_ip

get_istio_container_ip(p) ==
    IF ~p.has_status THEN "None"
    ELSE IF ~p.has_container_statuses THEN "None"
    ELSE IF \E i \in 1..Len(p.container_statuses) :
                p.container_statuses[i].name = IstioContainerName
         THEN p.pod_ip
         ELSE "None"

VARIABLES
    variant,          \* the delete_pod that runs: "main" (main.rs, delete.rs) or "cleanup"
    object_meta,      \* namespace and name in the metadata of the pod and of each owner
    pc,               \* position of the program
    result,           \* what the program returned: "none", "Ok", or the step that failed
    args,             \* watch_k8s: the WatcherArgs
    pod,              \* the pod in hand: the last one polled, or cleanup_pod's argument
    fetched,          \* watch loop: outcome of the tick's get_pod_status ("none", "Ok", "Err")
    should_kill_pod,  \* watch loop: should_kill_pod
    clock,            \* milliseconds spent in delay_for
    posts,            \* the POSTs sent to the sidecar, in order, with their outcome
    owner,            \* delete_pod: the owner taken from owner_refs in the last iteration
    owner_refs,       \* delete_pod: the pending owner references
    delete_order,     \* delete_pod: the chain of resolved resources
    next,             \* delete_pod: position of the deletion loop in delete_order
    meta,             \* owner_references of the pod and of every object fetched so far
    refs_left,        \* owner references the objects not yet read may still hold
    gets,             \* the get calls issued for owners, in order, with their outcome
    deletes           \* the delete calls issued, in order, with their outcome

vars ==
    <<variant, object_meta, pc, result, args, pod, fetched, should_kill_pod, clock, posts, owner,
      owner_refs, delete_order, next, meta, refs_left, gets, deletes>>

watch_vars == <<args, pod, fetched, should_kill_pod, clock, posts>>

delete_vars == <<owner, owner_refs, delete_order, next, meta, refs_left, gets, deletes>>

(***************************************************************************)
(* delete_pod                                                              *)
(***************************************************************************)
\* let mut owner_refs = get_owners(&pod.meta()); delete_order.push(Pod(pod))
DeletePodStart ==
    /\ pc = "delete_pod"
    /\ \E pm \in {l \in RefLists : Len(l) <= refs_left} :
        /\ meta' = (PodName :> pm)
        /\ refs_left' = refs_left - Len(pm)
        /\ owner_refs' = get_owners(pm)
    /\ delete_order' = <<PodName>>
    /\ pc' = "resolve"
    /\ UNCHANGED <<variant, object_meta, result, owner, next, gets, deletes>>
    /\ UNCHANGED watch_vars

\* the owner_references a successful get of n returns
Fetched(n) ==
    IF n \in DOMAIN meta THEN {meta[n]} ELSE {l \in RefLists : Len(l) <= refs_left}

\* one iteration of `while !owner_refs.is_empty()`
ResolveOwner ==
    /\ pc = "resolve"
    /\ owner_refs # <<>>
    /\ owner' = Last(owner_refs)
    /\ LET rest == Front(owner_refs)
       IN \/ \* Client::try_default() fails
             /\ result' = ResolveFailure("resolve_client").result
             /\ pc' = ResolveFailure("resolve_client").pc
             /\ owner_refs' = rest
             /\ UNCHANGED <<delete_order, meta, refs_left, gets>>
          \/ \* a known kind, the get fails
             /\ owner'.kind \in KnownKinds(variant)
             /\ gets' = Append(gets, [owner |-> owner', ok |-> FALSE,
                                    namespace |-> resolve_namespace(variant, object_meta[PodName]),
                                    pending |-> owner_refs])
             /\ result' = ResolveFailure("get").result
             /\ pc' = ResolveFailure("get").pc
             /\ owner_refs' = rest
             /\ UNCHANGED <<delete_order, meta, refs_left>>
          \/ \* a known kind, the get returns the target
             /\ owner'.kind \in KnownKinds(variant)
             /\ Len(delete_order) < MaxChain
             /\ gets' = Append(gets, [owner |-> owner', ok |-> TRUE,
                                    namespace |-> resolve_namespace(variant, object_meta[PodName]),
                                    pending |-> owner_refs])
             /\ \E tm \in Fetched(owner'.name) :
                 /\ meta' = (owner'.name :> tm) @@ meta
                 /\ refs_left' = IF owner'.name \in DOMAIN meta THEN refs_left
                                  ELSE refs_left - Len(tm)
                 /\ owner_refs' = insert_all(rest, get_owners(tm))
             /\ delete_order' = Append(delete_order, owner'.name)
             /\ UNCHANGED <<result, pc>>
          \/ \* any other kind: break, then delete_order.reverse()
             /\ owner'.kind \notin KnownKinds(variant)
             /\ owner_refs' = rest
             /\ delete_order' = reversed(delete_order)
             /\ pc' = "delete"
             /\ UNCHANGED <<result, meta, refs_left, gets>>
    /\ UNCHANGED <<variant, object_meta, next, deletes>>
    /\ UNCHANGED watch_vars

\* the loop ends with no pending owner left: delete_order.reverse()
ResolveDone ==
    /\ pc = "resolve"
    /\ owner_refs = <<>>
    /\ delete_order' = reversed(delete_order)
    /\ pc' = "delete"
    /\ UNCHANGED <<variant, object_meta, result, owner, owner_refs, next, meta, refs_left, gets, deletes>>
    /\ UNCHANGED watch_vars

\* one iteration of `for target in delete_order`: delete_resource(target)
DeleteResource ==
    /\ pc = "delete"
    /\ next <= Len(delete_order)
    /\ LET target == delete_order[next]
       IN \/ \* Client::try_default() fails
             /\ result' = DeleteFailure("delete_client").result
             /\ pc' = DeleteFailure("delete_client").pc
             /\ next' = next + DeleteFailure("delete_client").advance
             /\ UNCHANGED deletes
          \/ \* an unwrap of the target's namespace or name panics
             /\ unwrap_meta(object_meta[target]).panic
             /\ result' = "panic"
             /\ pc' = "done"
             /\ UNCHANGED <<next, deletes>>
          \/ \* api.delete fails
             /\ ~unwrap_meta(object_meta[target]).panic
             /\ deletes' = Append(deletes, [name |-> target, ok |-> FALSE])
             /\ result' = DeleteFailure("delete").result
             /\ pc' = DeleteFailure("delete").pc
             /\ next' = next + DeleteFailure("delete").advance
          \/ \* api.delete succeeds
             /\ ~unwrap_meta(object_meta[target]).panic
             /\ deletes' = Append(deletes, [name |-> target, ok |-> TRUE])
             /\ next' = next + 1
             /\ UNCHANGED <<result, pc>>
    /\ UNCHANGED <<variant, object_meta, owner, owner_refs, delete_order, meta, refs_left, gets>>
    /\ UNCHANGED watch_vars

\* the deletion loop is through: Ok(())
DeletePodOk ==
    /\ pc = "delete"
    /\ next > Len(delete_order)
    /\ result' = "Ok"
    /\ pc' = "done"
    /\ UNCHANGED <<variant, object_meta, object_meta>>
    /\ UNCHANGED delete_vars
    /\ UNCHANGED watch_vars

delete_pod ==
    \/ DeletePodStart
    \/ ResolveOwner
    \/ ResolveDone
    \/ DeleteResource
    \/ DeletePodOk

(***************************************************************************)
(* watch_k8s and wait_for_critical_pod_to_exit                             *)
(***************************************************************************)
\* the finish times a container observed now can report
Times == {k * PollIntervalMs : k \in 0..(clock \div PollIntervalMs)}

\* watch_k8s: the first get_pod_status, whose error is returned
WatchStart ==
    /\ pc = "watch_k8s"
    /\ \/ /\ pc' = "poll"
          /\ UNCHANGED result
       \/ /\ result' = "pod"
          /\ pc' = "done"
    /\ UNCHANGED <<variant, object_meta, object_meta>>
    /\ UNCHANGED delete_vars
    /\ UNCHANGED watch_vars

\* one tick: get_pod_status, then are_critical_pods_dead on the pod it returns
Poll ==
    /\ pc = "poll"
    /\ \/ \E p \in Pods(Times) :
            /\ pod' = p
            /\ fetched' = "Ok"
            /\ should_kill_pod' = are_critical_pods_dead(p, args)
            /\ pc' = "polled"
            /\ UNCHANGED result
       \/ /\ pod' = NoStatus
          /\ fetched' = "Err"
          /\ should_kill_pod' = PollFailure.should_kill_pod
          /\ pc' = PollFailure.pc
          /\ result' = PollFailure.result
    /\ UNCHANGED <<variant, object_meta, args, clock, posts>>
    /\ UNCHANGED delete_vars

\* if should_kill_pod { break } else delay_for(100 ms); after the loop,
\* watch_k8s calls delete_pod
TickEnd ==
    /\ pc = "polled"
    /\ IF should_kill_pod
       THEN /\ pc' = "delete_pod"
            /\ pod' = NoStatus
            /\ fetched' = "none"
            /\ UNCHANGED clock
       ELSE /\ clock < MaxTicks * PollIntervalMs
            /\ clock' = clock + delay_for(PollIntervalMs)
            /\ pc' = "poll"
            /\ UNCHANGED <<pod, fetched>>
    /\ UNCHANGED <<variant, object_meta, result, args, should_kill_pod, posts>>
    /\ UNCHANGED delete_vars

(***************************************************************************)
(* CleanupPod::cleanup_pod                                                 *)
(***************************************************************************)
\* if let Some(ip) = get_istio_container_ip(pod) { stop_istio(ip).await? ...
CleanupPod ==
    /\ pc = "cleanup_pod"
    /\ LET ip == get_istio_container_ip(pod)
       IN IF ip # "None"
          THEN \/ /\ posts' = Append(posts, [url |-> quit_url(ip), ok |-> TRUE])
                  /\ pc' = "grace"
                  /\ UNCHANGED result
               \/ /\ posts' = Append(posts, [url |-> quit_url(ip), ok |-> FALSE])
                  /\ result' = "istio"
                  /\ pc' = "done"
          ELSE /\ pc' = "delete_pod"
               /\ UNCHANGED <<posts, result>>
    /\ UNCHANGED <<variant, object_meta, args, pod, fetched, should_kill_pod, clock>>
    /\ UNCHANGED delete_vars

\* delay_for(istio_deadline_ms), then delete::delete_pod
GraceDelay ==
    /\ pc = "grace"
    /\ clock' = clock + delay_for(IstioDeadlineMs)
    /\ pc' = "delete_pod"
    /\ UNCHANGED <<variant, object_meta, result, args, pod, fetched, should_kill_pod, posts>>
    /\ UNCHANGED delete_vars

(***************************************************************************)
(* The specifications.                                                     *)
(***************************************************************************)
InitDeleteVars ==
    /\ owner = NoOwner
    /\ owner_refs = <<>>
    /\ delete_order = <<>>
    /\ next = 1
    /\ meta = <<>>
    /\ gets = <<>>
    /\ deletes = <<>>

InitWatchVars ==
    /\ pod = NoStatus
    /\ fetched = "none"
    /\ should_kill_pod = FALSE
    /\ clock = 0
    /\ posts = <<>>

\* the program of main.rs: watch_k8s
Init ==
    /\ variant = "main"
    /\ object_meta = AllFullMeta
    /\ pc = "watch_k8s"
    /\ result = "none"
    /\ args \in WatcherArgs
    /\ refs_left = MaxProgramRefs
    /\ InitWatchVars
    /\ InitDeleteVars

Next == WatchStart \/ Poll \/ TickEnd \/ delete_pod

Spec == Init /\ [][Next]_vars

\* the same program watching one critical container of a pod in a smaller
\* cluster, on a runtime that runs every step that stays possible: every await
\* of the one task returns
InitFair ==
    /\ variant = "main"
    /\ object_meta = AllFullMeta
    /\ pc = "watch_k8s"
    /\ result = "none"
    /\ args \in {a \in WatcherArgs : a.critical_containers = <<"worker">>}
    /\ refs_left = MaxProgramRefs - 1
    /\ InitWatchVars
    /\ InitDeleteVars

FairSpec == InitFair /\ [][Next]_vars /\ WF_vars(Next)

\* delete_pod alone, each of its variants, on a pod whose teardown was decided
InitDelete ==
    /\ variant \in {"main", "cleanup"}
    /\ object_meta = AllFullMeta
    /\ pc = "delete_pod"
    /\ result = "none"
    /\ args = NoArgs
    /\ refs_left = MaxRefs
    /\ InitWatchVars
    /\ InitDeleteVars

NextDelete == delete_pod

SpecDelete == InitDelete /\ [][NextDelete]_vars

\* CleanupPod::cleanup_pod on a pod
InitCleanup ==
    /\ variant = "cleanup"
    /\ object_meta = AllFullMeta
    /\ pc = "cleanup_pod"
    /\ result = "none"
    /\ args = NoArgs
    /\ refs_left = MaxProgramRefs
    /\ pod \in Pods({0})
    /\ fetched = "none"
    /\ should_kill_pod = FALSE
    /\ clock = 0
    /\ posts = <<>>
    /\ InitDeleteVars

NextCleanup == CleanupPod \/ GraceDelay \/ delete_pod

SpecCleanup == InitCleanup /\ [][NextCleanup]_vars

\* delete_pod alone, each of its variants, on a cluster in which the metadata
\* of at most one object lacks its namespace, its name or both
InitMeta ==
    /\ variant \in {"main", "cleanup"}
    /\ object_meta \in
          UNION {{[AllFullMeta EXCEPT ![n] = m] : m \in ObjectMeta(n)} : n \in Objects}
    /\ pc = "delete_pod"
    /\ result = "none"
    /\ args = NoArgs
    /\ refs_left = MaxProgramRefs
    /\ InitWatchVars
    /\ InitDeleteVars

SpecMeta == InitMeta /\ [][NextDelete]_vars

(***************************************************************************)
(* What the claims speak of, read off the objects and the calls.           *)
(***************************************************************************)
\* the kinds the owner-chain resolver is specified to resolve
RecognizedKinds == {"Job", "ReplicaSet", "Deployment"}

\* the owner references of a read object that name its controller
ControllerRefs(n) == SelectSeq(meta[n], LAMBDA r : r.controller = "true")

\* the names of the resources deleted, in the order of the calls
DeletedNames == [i \in 1..Len(deletes) |-> deletes[i].name]

\* the controller ancestors of n, nearest first, as far as the objects read tell
RECURSIVE Ancestors(_, _)
Ancestors(n, fuel) ==
    IF fuel = 0 \/ n \notin DOMAIN meta \/ ControllerRefs(n) = <<>> THEN <<>>
    ELSE <<ControllerRefs(n)[1].name>> \o Ancestors(ControllerRefs(n)[1].name, fuel - 1)

\* the chain from the pod up: the pod, its controller, the controller of that, ...
PodChain == <<PodName>> \o Ancestors(PodName, Cardinality(DOMAIN meta))

\* every object has at most one controller, of a recognized kind, and no
\* object is its own ancestor
IsChainOfRecognizedKinds ==
    /\ PodName \in DOMAIN meta
    /\ \A n \in DOMAIN meta :
        /\ Len(ControllerRefs(n)) <= 1
        /\ \A i \in 1..Len(ControllerRefs(n)) : ControllerRefs(n)[i].kind \in RecognizedKinds
    /\ \A i, j \in 1..Len(PodChain) : i # j => PodChain[i] # PodChain[j]

(***************************************************************************)
(* C1: when the controller owners of the pod form a chain of recognized    *)
(* kinds and every fetch and delete succeeds, delete_pod (main.rs,         *)
(* delete.rs) issues its deletes ancestor-first: the most distant ancestor *)
(* first, every owner before the resource it controls, the pod last.       *)
(***************************************************************************)
C1_AncestorFirst ==
    (variant = "main" /\ pc = "done" /\ result = "Ok" /\ IsChainOfRecognizedKinds)
    => /\ DeletedNames = Reverse(PodChain)
       /\ \A i \in 1..Len(deletes) : deletes[i].ok
       /\ DeletedNames[Len(deletes)] = PodName
       /\ \A i, j \in 1..Len(deletes) :
            (DeletedNames[j] \in DOMAIN meta
             /\ \E k \in 1..Len(ControllerRefs(DeletedNames[j])) :
                    ControllerRefs(DeletedNames[j])[k].name = DeletedNames[i])
            => i < j

C1_Witness ==
    /\ variant = "main" /\ pc = "done" /\ result = "Ok" /\ IsChainOfRecognizedKinds
    /\ DeletedNames = <<"dep-1", "rs-1", PodName>>

(***************************************************************************)
(* C2: the chain delete_order holds each cluster resource at most once,    *)
(* and no resource receives two delete calls in one teardown.              *)
(***************************************************************************)
C2_EachResourceOnce ==
    /\ \A i, j \in 1..Len(delete_order) : i # j => delete_order[i] # delete_order[j]
    /\ \A i, j \in 1..Len(deletes) : i # j => deletes[i].name # deletes[j].name

(***************************************************************************)
(* C3: when the resolution loop takes a pending owner of an unrecognized   *)
(* kind, the walk stops without an error: no get is issued for that owner  *)
(* or after it, the owner is never deleted, and what the chain held before *)
(* the stop is still deleted, delete_pod returning Ok when those deletes   *)
(* succeed.                                                                *)
(***************************************************************************)
\* the loop has taken an owner of an unrecognized kind
TakenUnknown == owner # NoOwner /\ owner.kind \notin RecognizedKinds

StoppedCleanly ==
    /\ pc \in {"delete", "done"}
    /\ result \notin {"resolve_client", "get"}
    /\ \A i \in 1..Len(gets) : gets[i].ok /\ gets[i].owner.name # owner.name
    /\ Len(gets) = Len(delete_order) - 1
    /\ \A i \in 1..Len(deletes) : deletes[i].name # owner.name
    /\ DeletedNames = SubSeq(delete_order, 1, Len(deletes))
    /\ (pc = "done" /\ result # "delete_client" /\ \A i \in 1..Len(deletes) : deletes[i].ok)
       => (result = "Ok" /\ Len(deletes) = Len(delete_order))

\* the claim as it stands
C3_StopsWithoutError == TakenUnknown => StoppedCleanly

\* the claim, for the iterations whose Client::try_default() succeeded
C3_StopsWithoutErrorGivenClient ==
    (TakenUnknown /\ result # "resolve_client") => StoppedCleanly

C3_Witness ==
    /\ TakenUnknown /\ variant = "main" /\ pc = "done" /\ result = "Ok"
    /\ owner.name = "cron-1"
    /\ DeletedNames = <<"rs-1", PodName>>

(***************************************************************************)
(* C4: if a get of an owner, or the creation of the API client, fails      *)
(* while delete_pod resolves the chain, delete_pod returns that error and  *)
(* has issued no delete: the partially resolved chain is left alone.       *)
(***************************************************************************)
C4_NoDeleteAfterFetchFailure ==
    /\ (\E i \in 1..Len(gets) : ~gets[i].ok)
       => (pc = "done" /\ result = "get" /\ deletes = <<>> /\ next = 1)
    /\ result \in {"resolve_client", "get"} => (pc = "done" /\ deletes = <<>> /\ next = 1)

C4_Witness ==
    /\ pc = "done" /\ result = "get"
    /\ delete_order = <<PodName, "rs-1">>
    /\ ~gets[Len(gets)].ok /\ gets[Len(gets)].owner.name = "dep-1"

(***************************************************************************)
(* C5: if the delete call for the chain member at position i of the        *)
(* ancestor-first order fails, delete_pod returns that error, issues no    *)
(* delete for any later member and does not retry; the members before i    *)
(* were deleted.                                                           *)
(***************************************************************************)
C5_DeleteFailureAborts ==
    /\ \A i \in 1..(Len(deletes) - 1) : deletes[i].ok
    /\ DeletedNames = SubSeq(delete_order, 1, Len(deletes))
    /\ (deletes # <<>> /\ ~deletes[Len(deletes)].ok)
       => (pc = "done" /\ result = "delete" /\ next = Len(deletes))
    /\ result = "delete" => (deletes # <<>> /\ ~deletes[Len(deletes)].ok)

C5_Witness ==
    /\ pc = "done" /\ result = "delete"
    /\ delete_order = <<"dep-1", "rs-1", PodName>>
    /\ deletes = <<[name |-> "dep-1", ok |-> TRUE], [name |-> "rs-1", ok |-> FALSE]>>

(***************************************************************************)
(* C6: only owner references whose controller flag is true are followed:   *)
(* a reference whose flag is false or unset is never pending, never        *)
(* fetched, and what it names is never deleted on its account.             *)
(***************************************************************************)
\* some object read so far names n as its controller
NamedAsController(n) ==
    \E m \in DOMAIN meta : \E k \in 1..Len(meta[m]) :
        meta[m][k].name = n /\ meta[m][k].controller = "true"

C6_OnlyControllerOwners ==
    /\ \A i \in 1..Len(owner_refs) : owner_refs[i].controller = "true"
    /\ \A i \in 1..Len(gets) : gets[i].owner.controller = "true"
    /\ \A n \in Range(delete_order) \ {PodName} : NamedAsController(n)
    /\ Range(DeletedNames) \subseteq Range(delete_order)

C6_Witness ==
    /\ pc = "done" /\ result = "Ok"
    /\ DeletedNames = <<"rs-1", PodName>>
    /\ meta[PodName] = <<Ref("job-1", "false"), Ref("rs-1", "true")>>
    /\ meta["rs-1"] = <<Ref("dep-1", "unset")>>

(***************************************************************************)
(* What the evaluator claims speak of.                                     *)
(***************************************************************************)
\* the tick has fetched a pod and evaluated it
Evaluated == pc = "polled" /\ fetched = "Ok"

\* the observed statuses of declared critical containers
ObservedCritical ==
    {i \in 1..Len(pod.container_statuses) :
        pod.container_statuses[i].name \in Range(args.critical_containers)}

\* those of them that are terminated
ObservedTerminated ==
    {i \in ObservedCritical : pod.container_statuses[i].state = "terminated"}

\* the finish time plus the critical deadline has elapsed
PastDeadline(i) == pod.container_statuses[i].finished_at + CriticalDeadlineMs <= clock

(***************************************************************************)
(* C7: whatever the policy and the critical containers, a pod with no      *)
(* status, or with no container statuses, is not eligible, and the watch   *)
(* loop starts the teardown only on a tick that saw container statuses.    *)
(***************************************************************************)
C7_NoStatusNotEligible ==
    /\ [](Evaluated /\ (~pod.has_status \/ ~pod.has_container_statuses)
          => ~should_kill_pod)
    /\ [][(pc = "polled" /\ pc' = "delete_pod")
          => (fetched = "Ok" /\ pod.has_status /\ pod.has_container_statuses)]_vars

C7_Witness ==
    /\ Evaluated /\ pod.has_status /\ ~pod.has_container_statuses
    /\ args.kill_condition = "All" /\ args.critical_containers = <<>>
    /\ ~should_kill_pod

(***************************************************************************)
(* C8: under Any the evaluator returns true iff a declared critical        *)
(* container is observed terminated and its finish time plus the critical  *)
(* deadline has elapsed.                                                   *)
(***************************************************************************)
C8_AnyPastDeadline ==
    (Evaluated /\ args.kill_condition = "Any")
    => (should_kill_pod <=> \E i \in ObservedTerminated : PastDeadline(i))

\* C8 as the code has it: under Any the evaluator returns true iff a
\* declared critical container is observed terminated, whenever it finished
C8_AnyTerminated ==
    (Evaluated /\ args.kill_condition = "Any")
    => (should_kill_pod <=> ObservedTerminated # {})

C8_Witness ==
    /\ Evaluated /\ args.kill_condition = "Any"
    /\ should_kill_pod
    /\ ObservedTerminated # {}
    /\ \A i \in ObservedTerminated : ~PastDeadline(i)

(***************************************************************************)
(* C9: under All the evaluator returns true iff every declared critical    *)
(* container that is present among the observed statuses is terminated; a  *)
(* declared container that is absent does not block eligibility.           *)
(***************************************************************************)
C9_AllOfObserved ==
    (Evaluated /\ args.kill_condition = "All" /\ pod.has_container_statuses)
    => (should_kill_pod <=> ObservedTerminated = ObservedCritical)

\* C9 as the code has it: under All the evaluator returns true iff the
\* declared critical containers observed terminated are as many as the
\* entries of the declared list, so an absent declared container blocks
C9_AllOfDeclared ==
    (Evaluated /\ args.kill_condition = "All" /\ pod.has_container_statuses)
    => (should_kill_pod <=>
            Cardinality(ObservedTerminated) = Len(args.critical_containers))

C9_Witness ==
    /\ Evaluated /\ args.kill_condition = "All"
    /\ args.critical_containers = <<IstioContainerName, "worker">>
    /\ Len(pod.container_statuses) = 1
    /\ pod.container_statuses[1].name = "worker"
    /\ pod.container_statuses[1].state = "terminated"
    /\ ~should_kill_pod

(***************************************************************************)
(* C10: on a pod with no status, or with no container status named like    *)
(* the sidecar, cleanup_pod sends no POST, waits no grace period, reports  *)
(* no error of the sidecar and goes straight on to delete_pod.             *)
(***************************************************************************)
NoSidecar ==
    \/ ~pod.has_status
    \/ \A i \in 1..Len(pod.container_statuses) :
           pod.container_statuses[i].name # IstioContainerName

C10_NoSidecarNoSignal ==
    /\ [](NoSidecar => (posts = <<>> /\ clock = 0 /\ pc # "grace" /\ result # "istio"))
    /\ [][(pc = "cleanup_pod" /\ NoSidecar) => (pc' = "delete_pod" /\ result' = "none")]_vars

C10_Witness ==
    /\ NoSidecar /\ pod.has_status /\ pod.pod_ip # "None"
    /\ Len(pod.container_statuses) = 1
    /\ pc = "resolve" /\ posts = <<>> /\ clock = 0

(***************************************************************************)
(* C11  A failed sidecar signal and the teardown                           *)
(***************************************************************************)
\* delete_pod has been entered: the pod is on the chain
TeardownStarted == delete_order # <<>>

\* the shutdown POST was sent and failed
SignalFailed == \E i \in 1..Len(posts) : ~posts[i].ok

\* C11: a run of cleanup_pod whose shutdown POST failed does not end without
\* having started delete_pod.
C11_FailedSignalStillDeletes ==
    (SignalFailed /\ pc = "done") => TeardownStarted

(***************************************************************************)
(* C12  A failed fetch of the pod                                          *)
(***************************************************************************)
\* C12 as claimed: after a failed fetch in a tick of the watch loop the program
\* has ended with the error, no teardown has started, and it exits non-zero.
C12_FetchFailureFatal ==
    fetched = "Err" =>
        /\ pc = "done" /\ result = "pod"
        /\ ~TeardownStarted
        /\ exit_code(result) # 0

\* C12 amended: the first fetch, before the loop, is the fatal one: when it
\* fails the program ends with exit code 1, no tick has run and no teardown
\* has started.  A fetch that fails in a tick of the loop is ignored: the tick
\* counts as not eligible, the program has not ended, and the step after it
\* is the delay that leads to the next tick.
C12_OnlyFirstFetchFatal ==
    /\ [](result = "pod" =>
            /\ pc = "done" /\ exit_code(result) = 1
            /\ fetched = "none" /\ clock = 0 /\ ~TeardownStarted)
    /\ [](fetched = "Err" =>
            /\ pc \in {"polled", "poll"} /\ result = "none"
            /\ ~should_kill_pod /\ ~TeardownStarted)
    /\ [][(pc = "polled" /\ fetched = "Err") =>
            (pc' = "poll" /\ clock' = clock + PollIntervalMs)]_vars

\* a tick of the loop has failed to fetch the pod, after an earlier tick, and
\* the program goes on
C12_Witness ==
    /\ pc = "polled" /\ fetched = "Err" /\ clock > 0
    /\ result = "none" /\ ~should_kill_pod

(***************************************************************************)
(* C13  One teardown per run                                               *)
(***************************************************************************)
\* the watch loop has selected the pod: it has left the loop
Selected == pc \in {"delete_pod", "resolve", "delete"} \/ TeardownStarted

\* C13: once the pod is selected it is not fetched or evaluated again, and
\* delete_pod is entered at most once in a run, with nothing read or deleted
\* before, also when the teardown fails.
C13_OneTeardown ==
    /\ [](pc = "delete_pod" =>
            (~TeardownStarted /\ gets = <<>> /\ deletes = <<>>))
    /\ [](Selected => pc \notin {"watch_k8s", "poll", "polled"})
    /\ [][Selected =>
            /\ pc' \notin {"watch_k8s", "poll", "polled"}
            /\ (pc # "delete_pod" => pc' # "delete_pod")
            /\ UNCHANGED <<pod, fetched, should_kill_pod>>]_vars

\* a teardown that has failed at a delete call, after the loop selected the pod
C13_Witness ==
    /\ pc = "done" /\ result = "delete"
    /\ should_kill_pod /\ TeardownStarted /\ deletes # <<>>

(***************************************************************************)
(* C14  The order in which pending owners are taken                        *)
(***************************************************************************)
\* a step of the resolution loop that fetched the owner it took
GotTarget == pc = "resolve" /\ Len(gets') = Len(gets) + 1 /\ Last(gets').ok

\* the controller owners of the resource that step fetched, as listed
NewOwners == SelectSeq(meta'[owner'.name], LAMBDA r : r.controller = "true")

\* C14 as claimed: last in, first out: after a fetch that brought controller
\* owners, the owner to be taken next is one of them, not an older pending one.
C14_LastInFirstOut ==
    [][(GotTarget /\ NewOwners # <<>>) => Last(owner_refs') \in Range(NewOwners)]_vars

\* C14 amended: first in, first out: the loop takes the owner at the end of
\* the pending list, and the controller owners of the resource it fetched go
\* to the front of the list, behind every owner already pending, the first
\* listed of them nearest the end; the list starts as the pod's controller
\* owners in listed order.
C14_FirstInFirstOut ==
    /\ [][(pc = "delete_pod" /\ pc' = "resolve") =>
            owner_refs' = SelectSeq(meta'[PodName], LAMBDA r : r.controller = "true")]_vars
    /\ [][(pc = "resolve" /\ owner_refs # <<>>) => owner' = Last(owner_refs)]_vars
    /\ [][GotTarget => owner_refs' = Reverse(NewOwners) \o Front(owner_refs)]_vars
    /\ [][(GotTarget /\ Front(owner_refs) # <<>>) =>
            Last(owner_refs') = Last(Front(owner_refs))]_vars

\* a fetched owner brought a controller owner while an owner of the pod was
\* still pending: the new one is in front, the older one at the end
C14_Witness ==
    /\ pc = "resolve" /\ Len(gets) = 1 /\ gets[1].ok
    /\ Len(owner_refs) = 2
    /\ owner_refs[1] \in Range(ControllerRefs(owner.name))
    /\ owner_refs[2] \in Range(ControllerRefs(PodName))
    /\ owner_refs[2] \notin Range(ControllerRefs(owner.name))
    /\ owner_refs[1] \notin Range(ControllerRefs(PodName))

(***************************************************************************)
(* C15  The owner kinds every variant resolves                             *)
(***************************************************************************)
\* C15 as claimed, for the delete_pod that cleanup_pod calls: an owner of kind
\* Job, ReplicaSet or Deployment that the loop took with a client is fetched,
\* the walk is cut only at an owner of another kind, and a pod owned by a
\* ReplicaSet owned by a Deployment has all three deleted when delete_pod
\* returns Ok.
C15_ThreeKindsResolved ==
    /\ (owner # NoOwner /\ owner.kind \in RecognizedKinds /\ result # "resolve_client")
           => (gets # <<>> /\ Last(gets).owner = owner)
    /\ TakenUnknown => owner.kind \notin RecognizedKinds
    /\ ( /\ pc = "done" /\ result = "Ok"
         /\ ControllerRefs(PodName) = <<Ref("rs-1", "true")>>
         /\ "rs-1" \in DOMAIN meta => ControllerRefs("rs-1") = <<Ref("dep-1", "true")>> )
           => {PodName, "rs-1", "dep-1"} \subseteq Range(DeletedNames)

(***************************************************************************)
(* C16  The grace period after the sidecar signal                          *)
(***************************************************************************)
\* no call of the cascading deletion has been made
NoClusterCall == gets = <<>> /\ deletes = <<>> /\ ~TeardownStarted

\* C16: in a run of cleanup_pod whose shutdown POST succeeded, no owner get and
\* no delete is issued until the whole grace period has passed after the
\* POST, and the POST is sent at most once.
C16_GraceBeforeDeletion ==
    /\ [](Len(posts) <= 1)
    /\ []((posts # <<>> /\ posts[1].ok) =>
            \/ pc = "grace" /\ clock = 0 /\ NoClusterCall
            \/ pc # "grace" /\ clock = IstioDeadlineMs)
    /\ [][(posts # <<>> /\ posts[1].ok /\ clock < IstioDeadlineMs) =>
            (NoClusterCall' /\ (clock' = clock + IstioDeadlineMs \/ clock' = clock))]_vars
    /\ [][posts' # posts => (posts = <<>> /\ pc = "cleanup_pod" /\ NoClusterCall')]_vars

\* the POST succeeded, the grace period has passed and a delete was issued
C16_Witness ==
    /\ posts # <<>> /\ posts[1].ok
    /\ clock = IstioDeadlineMs
    /\ gets # <<>> /\ deletes # <<>> /\ deletes[1].ok

(***************************************************************************)
(* C17  The sidecar is signaled before the pod is deleted                  *)
(***************************************************************************)
\* a container with the configured sidecar name is among the container statuses
SidecarPresent ==
    /\ pod.has_status /\ pod.has_container_statuses
    /\ \E i \in 1..Len(pod.container_statuses) :
           pod.container_statuses[i].name = IstioContainerName

\* the shutdown POST went to port 15000, path /quitquitquit, on the pod's IP
SignaledOnPodIp ==
    /\ Len(posts) = 1
    /\ posts[1].url.host = pod.pod_ip
    /\ posts[1].url.port = 15000
    /\ posts[1].url.path = "/quitquitquit"

\* C17 as claimed: with the sidecar container present, cleanup_pod has sent the
\* POST by the time it goes on, and the deletion starts only after it.
C17_SidecarSignaledFirst ==
    SidecarPresent =>
        /\ pc # "cleanup_pod" => SignaledOnPodIp
        /\ (pc = "delete_pod" \/ TeardownStarted) => SignaledOnPodIp

\* C17 amended: the same when the pod's status also reports a pod IP. Without
\* a pod IP no POST is sent.
C17_SignaledFirstGivenIp ==
    /\ (SidecarPresent /\ pod.pod_ip # "None") =>
          /\ pc # "cleanup_pod" => SignaledOnPodIp
          /\ (pc = "delete_pod" \/ TeardownStarted) => SignaledOnPodIp
    /\ (SidecarPresent /\ pod.pod_ip = "None") => posts = <<>>

\* a pod with the sidecar and a pod IP has been deleted after the signal
C17_Witness ==
    /\ SidecarPresent /\ pod.pod_ip # "None"
    /\ SignaledOnPodIp /\ posts[1].ok
    /\ \E i \in 1..Len(deletes) : deletes[i].name = PodName /\ deletes[i].ok

(***************************************************************************)
(* C18  Nothing is deleted before the pod is judged eligible               *)
(***************************************************************************)
\* C18: in a run of watch_k8s every owner get and every delete comes after a
\* tick that fetched the pod and on which are_critical_pods_dead returned
\* true; a tick whose fetch failed or whose verdict was false is followed by
\* the next tick, not by a teardown.
C18_EligibleBeforeTeardown ==
    /\ []((pc \in {"delete_pod", "resolve", "delete"} \/ ~NoClusterCall)
            => should_kill_pod)
    /\ [][(should_kill_pod' /\ ~should_kill_pod) =>
            /\ pc = "poll" /\ pc' = "polled" /\ fetched' = "Ok"
            /\ are_critical_pods_dead(pod', args)]_vars
    /\ [][(pc' = "delete_pod" /\ pc # "delete_pod") =>
            (pc = "polled" /\ fetched = "Ok" /\ should_kill_pod)]_vars
    /\ [][(pc = "polled" /\ (fetched = "Err" \/ ~should_kill_pod)) =>
            (pc' = "poll" /\ NoClusterCall')]_vars

\* after a tick that was not eligible, a later one was, and the chain was
\* fetched and deleted
C18_Witness ==
    /\ should_kill_pod /\ clock > 0
    /\ gets # <<>> /\ deletes # <<>>
    /\ pc = "done" /\ result = "Ok"

(***************************************************************************)
(* C19  The All policy with every critical container observed              *)
(***************************************************************************)
\* every declared critical container is among the observed statuses
AllDeclaredPresent ==
    /\ pod.has_status /\ pod.has_container_statuses
    /\ \A c \in Range(args.critical_containers) :
           \E i \in 1..Len(pod.container_statuses) : pod.container_statuses[i].name = c

\* C19: under All, with every declared critical container observed, the
\* verdict of a tick is true exactly when all of them are observed terminated.
C19_AllWhenAllTerminated ==
    (Evaluated /\ args.kill_condition = "All" /\ AllDeclaredPresent)
        => (should_kill_pod <=> ObservedTerminated = ObservedCritical)

(***************************************************************************)
(* C20  The watch loop gets to the teardown despite failed ticks           *)
(***************************************************************************)
\* the watch loop is entered, and from some tick on every tick fetches the pod
\* and judges it eligible
EventuallyAlwaysEligible ==
    /\ <>(pc = "poll")
    /\ <>[](pc = "polled" => (fetched = "Ok" /\ should_kill_pod))

\* the delete of the pod itself has been issued
PodDeleteIssued == \E i \in 1..Len(deletes) : deletes[i].name = PodName

\* delete_pod has returned an error of a cluster call or of a client creation
TeardownFailed ==
    pc = "done" /\ result \in {"resolve_client", "get", "delete_client", "delete"}

LacksMeta(n) == object_meta[n].namespace = "None" \/ object_meta[n].name = "None"

\* the deletion loop is at a member whose metadata lacks something
TurnOfLacking ==
    pc = "delete" /\ next <= Len(delete_order) /\ LacksMeta(delete_order[next])

\* C21: a chain member whose metadata lacks a namespace or a name is never
\* passed over: no delete is ever issued for it, the teardown ends at its turn
\* (with the panic of an unwrap once the client is made) with no delete for
\* it or after it, and delete_pod does not return Ok with it in the chain.
\* The cleanup variant looks the owners of a pod without a namespace up in
\* "default" and ends the same way at the pod's turn.
C21_LackingMemberStopsTeardown ==
    /\ [](\A i \in 1..Len(deletes) : ~LacksMeta(deletes[i].name))
    /\ [](result = "panic" =>
            /\ pc = "done" /\ next <= Len(delete_order)
            /\ LacksMeta(delete_order[next])
            /\ Len(deletes) = next - 1)
    /\ []((pc = "done" /\ result = "Ok") =>
            \A i \in 1..Len(delete_order) : ~LacksMeta(delete_order[i]))
    /\ [][TurnOfLacking =>
            /\ pc' = "done" /\ result' \in {"panic", "delete_client"}
            /\ UNCHANGED <<next, deletes>>]_vars
    /\ [][next' # next =>
            /\ next' = next + 1 /\ deletes' = Append(deletes, Last(deletes'))
            /\ Last(deletes').name = delete_order[next] /\ Last(deletes').ok]_vars
    /\ []((variant = "cleanup" /\ object_meta[PodName].namespace = "None") =>
            \A i \in 1..Len(gets) : gets[i].namespace = "default")

\* the cleanup variant, a pod without a namespace: its owner was fetched in
\* "default" and deleted, and the teardown ended with a panic at the pod
C21_Witness ==
    /\ variant = "cleanup" /\ object_meta[PodName].namespace = "None"
    /\ gets # <<>> /\ gets[1].ok /\ gets[1].namespace = "default"
    /\ deletes # <<>> /\ \A i \in 1..Len(deletes) : deletes[i].ok
    /\ pc = "done" /\ result = "panic" /\ delete_order[next] = PodName

(***************************************************************************)
(* C22  Termination of the resolution loop                                 *)
(***************************************************************************)
\* C22: the resolution loop ends after finitely many gets on every finite
\* cluster, cycles of controller owners included: it never fetches an owner
\* with the pending list it had at an earlier fetch. (The loop's next steps
\* depend on the pending list and the cluster alone, so a loop that is back
\* at an earlier pending list after a fetch that succeeded fetches the same
\* owners again without end, and the chain grows with every round.)
C22_ResolutionTerminates ==
    \A i \in 1..Len(gets) : \A j \in 1..Len(gets) :
        (i < j /\ gets[i].ok /\ gets[j].ok) => gets[i].pending # gets[j].pending
====
